---------------------------- MODULE Spec2Model ----------------------------
(***************************************************************************)
(* A model of the book search pipeline of bookshelf                        *)
(* (src/search_service.py, class BookSearchService), of its caller         *)
(* search_books and of the collection routes of src/app.py.                *)
(*                                                                         *)
(* Strings are sequences of character codes (ASCII), so that lower(),      *)
(* split(), strip(), substring tests and the ordering of strings are       *)
(* computed, not assumed.  A field of a catalog item that may be missing   *)
(* is an option: <<>> when the key is absent and <<v>> when it is present  *)
(* with value v.  Lists are sequences, a dict of image links is a set of   *)
(* <<key, value>> pairs.                                                   *)
(***************************************************************************)
EXTENDS Integers, Sequences, FiniteSets, TLC

VARIABLES
    query,           \* self.query: the stripped query (a string)
    sort,            \* self.sort: the sort mode
    pc,              \* where process() stands
    qi,              \* number of first-pass requests issued so far
    seen,            \* fetch_raw_results: the set of identifiers seen
    results,         \* fetch_raw_results: the merged list
    first_results,   \* results as the first pass left it (line 77)
    authors,         \* fetch_raw_results: authors[:5] of the second pass
    ai,              \* number of second-pass requests issued so far
    reqs,            \* the upstream requests issued, in order
    resp,            \* fetch_raw_results: the answer to the last request
    filtered,        \* process: the output of filter_results
    sorted_results,  \* process: the output of sort_results
    out,             \* process: the list of converted records
    err,             \* the exception that ended process(), "" if none
    page,            \* search_books: the page argument of the request
    books_page,      \* search_books: the slice get_page returned
    has_more,        \* search_books: the flag given to the template
    shown,           \* the slices rendered so far, one after another
    books,           \* table book: the identifiers of the rows
    collections,     \* table collection: the identifiers of the rows
    entries,         \* table collection_book: the rows
    next_id,         \* the next primary key of collection_book
    fk_enforced,     \* whether the database behind DATABASE_URL checks foreign keys
    handlers         \* the requests to the collection routes: where each stands

page_vars == <<page, books_page, has_more, shown>>

shelf_vars == <<books, collections, entries, next_id, fk_enforced, handlers>>

search_vars == <<query, sort, pc, qi, seen, results, first_results, authors, ai, reqs,
                 resp, filtered, sorted_results, out, err, page_vars>>

vars == <<search_vars, shelf_vars>>

---------------------------------------------------------------------------
(* Bounds of the model. *)

\* longest list of items one upstream response carries
MaxResp == 2
\* longest list handed to filter_results / sort_results on their own
MaxList == 3
MaxBooks == 30
MaxPage == 4
MaxRequests == 3

---------------------------------------------------------------------------
(* Strings. *)

\* the ASCII characters str.strip() and str.split() treat as whitespace
Whitespace == {9, 10, 11, 12, 13, 32}

\* str.lower() on one character
lower_char(c) == IF c \in 65..90 THEN c + 32 ELSE c

\* str.lower()
lower(s) == [i \in 1..Len(s) |-> lower_char(s[i])]

\* w in s, for strings
contains(w, s) ==
    \E i \in 0..(Len(s) - Len(w)) : SubSeq(s, i + 1, i + Len(w)) = w

\* str.isdigit(): non-empty and every character a digit
isdigit(s) == Len(s) > 0 /\ \A i \in 1..Len(s) : s[i] \in 48..57

\* int() of a string of digits
RECURSIVE int(_)
int(s) ==
    IF Len(s) = 0 THEN 0
    ELSE 10 * int(SubSeq(s, 1, Len(s) - 1)) + (s[Len(s)] - 48)

\* str.strip()
RECURSIVE lstrip(_)
lstrip(s) ==
    IF Len(s) > 0 /\ s[1] \in Whitespace THEN lstrip(Tail(s)) ELSE s

RECURSIVE rstrip(_)
rstrip(s) ==
    IF Len(s) > 0 /\ s[Len(s)] \in Whitespace
    THEN rstrip(SubSeq(s, 1, Len(s) - 1)) ELSE s

strip(s) == rstrip(lstrip(s))

\* str.split() with no argument: the maximal runs of non-whitespace
RECURSIVE split(_)
split(s) ==
    LET t == lstrip(s)
        n == IF \E i \in 1..Len(t) : t[i] \in Whitespace
             THEN (CHOOSE i \in 1..Len(t) :
                      /\ t[i] \in Whitespace
                      /\ \A j \in 1..(i - 1) : t[j] \notin Whitespace) - 1
             ELSE Len(t)
    IN  IF Len(t) = 0 THEN <<>>
        ELSE <<SubSeq(t, 1, n)>> \o split(SubSeq(t, n + 1, Len(t)))

\* sep.join(list)
RECURSIVE join(_, _)
join(sep, list) ==
    IF Len(list) = 0 THEN <<>>
    ELSE IF Len(list) = 1 THEN list[1]
    ELSE list[1] \o sep \o join(sep, Tail(list))

\* a < b for strings: lexicographic on character codes
RECURSIVE str_less(_, _)
str_less(a, b) ==
    IF Len(b) = 0 THEN FALSE
    ELSE IF Len(a) = 0 THEN TRUE
    ELSE IF a[1] # b[1] THEN a[1] < b[1]
    ELSE str_less(Tail(a), Tail(b))

\* sorted(set of strings)
RECURSIVE sorted_strings(_)
sorted_strings(S) ==
    IF S = {} THEN <<>>
    ELSE LET m == CHOOSE x \in S : \A y \in S \ {x} : str_less(x, y)
         IN  <<m>> \o sorted_strings(S \ {m})

\* dict.get(key, default) on an option
Get(opt, default) == IF opt = <<>> THEN default ELSE opt[1]

Range(s) == {s[i] : i \in 1..Len(s)}

---------------------------------------------------------------------------
(* Configuration set by __init__. *)

per_page == 12

\* self.banned
banned ==
    { <<103,101,111,108,111,103,121>>  \* "geology"
    , <<115,101,100,105,109,101,110,116>>  \* "sediment"
    , <<101,99,111,108,111,103,121>>  \* "ecology"
    , <<118,101,103,101,116,97,116,105,111,110>>  \* "vegetation"
    , <<97,110,97,108,121,115,105,115>>  \* "analysis"
    , <<114,101,112,111,114,116>>  \* "report"
    , <<98,97,115,105,110>>  \* "basin"
    , <<114,101,115,101,114,118,111,105,114>>  \* "reservoir"
    , <<103,97,115>>  \* "gas"
    , <<109,97,110,97,103,101,109,101,110,116>>  \* "management"
    , <<101,114,111,115,105,111,110>>  \* "erosion"
    , <<117,110,105,118,101,114,115,105,116,121>>  \* "university"
    , <<115,117,114,118,101,121>>  \* "survey"
    , <<114,101,115,101,97,114,99,104>>  \* "research"
    , <<115,116,117,100,121>>  \* "study"
    }
\* self.literary_clues
literary_clues ==
    { <<102,105,99,116,105,111,110>>  \* "fiction"
    , <<102,97,110,116,97,115,121>>  \* "fantasy"
    , <<110,111,118,101,108>>  \* "novel"
    , <<115,99,105,101,110,99,101,32,102,105,99,116,105,111,110>>  \* "science fiction"
    , <<115,99,105,45,102,105>>  \* "sci-fi"
    , <<101,112,105,99>>  \* "epic"
    , <<97,100,118,101,110,116,117,114,101>>  \* "adventure"
    , <<114,111,109,97,110,99,101>>  \* "romance"
    , <<116,104,114,105,108,108,101,114>>  \* "thriller"
    , <<115,112,97,99,101>>  \* "space"
    , <<103,97,108,97,99,116,105,99>>  \* "galactic"
    , <<104,101,114,111>>  \* "hero"
    , <<115,97,103,97>>  \* "saga"
    , <<99,104,114,111,110,105,99,108,101,115>>  \* "chronicles"
    , <<115,101,114,105,101,115>>  \* "series"
    }
\* the keyword -> label mapping of extract_genres, as <<word, label>> pairs
mapping ==
    { <<<<102,97,110,116,97,115,121>>, <<70,97,110,116,97,115,121>>>>  \* "fantasy": "Fantasy"
    , <<<<101,112,105,99>>, <<69,112,105,99>>>>  \* "epic": "Epic"
    , <<<<115,99,105,101,110,99,101,32,102,105,99,116,105,111,110>>, <<83,99,105,101,110,99,101,32,70,105,99,116,105,111,110>>>>  \* "science fiction": "Science Fiction"
    , <<<<115,99,105,45,102,105>>, <<83,99,105,101,110,99,101,32,70,105,99,116,105,111,110>>>>  \* "sci-fi": "Science Fiction"
    , <<<<115,112,97,99,101>>, <<83,99,105,101,110,99,101,32,70,105,99,116,105,111,110>>>>  \* "space": "Science Fiction"
    , <<<<103,97,108,97,99,116,105,99>>, <<83,99,105,101,110,99,101,32,70,105,99,116,105,111,110>>>>  \* "galactic": "Science Fiction"
    , <<<<109,97,103,105,99>>, <<70,97,110,116,97,115,121>>>>  \* "magic": "Fantasy"
    , <<<<104,101,114,111>>, <<70,97,110,116,97,115,121>>>>  \* "hero": "Fantasy"
    , <<<<97,100,118,101,110,116,117,114,101>>, <<65,100,118,101,110,116,117,114,101>>>>  \* "adventure": "Adventure"
    , <<<<100,121,115,116,111,112,105,97,110>>, <<68,121,115,116,111,112,105,97,110>>>>  \* "dystopian": "Dystopian"
    }
s_en == <<101,110>>                       \* "en"
s_Unknown == <<85,110,107,110,111,119,110>>  \* "Unknown"
s_comma == <<44,32>>                      \* ", "
s_space == <<32>>                         \* " "

\* __init__: self.query = query.strip()
init_query(raw) == strip(raw)

---------------------------------------------------------------------------
(* Query analysis. *)

\* is_ambiguous_title(self)
is_ambiguous_title ==
    LET words == split(query)
    IN  /\ Len(words) >= 2
        /\ \A i \in 1..Len(words) : Len(words[i]) > 3
        /\ ~ \E i \in 1..Len(words) : isdigit(words[i])

\* extract_authors(self, items): the set; list(authors) orders it arbitrarily
extract_authors(items) ==
    { a \in UNION { Range(Get(items[i].authors, <<>>)) : i \in 1..Len(items) } :
        Len(split(a)) >= 2 }

---------------------------------------------------------------------------
(* Filtering. *)

\* the year prefix test shared by is_literary, sort_results and convert
has_year(pub) == Len(pub) >= 4 /\ isdigit(SubSeq(pub, 1, 4))

\* query_words of is_literary: the tokens of the lower-cased query longer than 3
query_words ==
    LET long(w) == Len(w) > 3 IN SelectSeq(split(lower(query)), long)

max(a, b) == IF a >= b THEN a ELSE b

\* the locals of is_literary
info_title(item) == lower(Get(item.title, <<>>))
info_desc(item) == lower(Get(item.description, <<>>))
info_authors(item) == lower(join(s_space, Get(item.authors, <<>>)))
info_categories(item) ==
    LET cats == Get(item.categories, <<>>)
    IN  [i \in 1..Len(cats) |-> lower(cats[i])]
has_cover(item) == Get(item.imageLinks, {}) # {}
combined_text(item) == info_title(item) \o s_space \o info_desc(item)
title_matches(item) ==
    Cardinality({i \in 1..Len(query_words) : contains(query_words[i], info_title(item))})
author_matches(item) ==
    Cardinality({i \in 1..Len(query_words) : contains(query_words[i], info_authors(item))})

\* the three guards of is_literary
language_guard(item) == item.language # <<s_en>>
year_guard(item) ==
    LET pub == Get(item.publishedDate, <<>>)
    IN  has_year(pub) /\ int(SubSeq(pub, 1, 4)) < 1900
banned_guard(item) == \E w \in banned : contains(w, combined_text(item))

\* the category rule of is_literary
category_match(item) ==
    \E i \in 1..Len(info_categories(item)) :
        \E k \in literary_clues : contains(k, info_categories(item)[i])

\* is_literary with the strong title match tried before the banned keywords
is_literary_title_first(item) ==
    IF language_guard(item) THEN FALSE
    ELSE IF year_guard(item) THEN FALSE
    ELSE IF Len(query_words) > 0
            /\ title_matches(item) >= max(2, Len(query_words) - 1) THEN TRUE
    ELSE IF banned_guard(item) THEN FALSE
    ELSE IF author_matches(item) >= 1 /\ Len(query_words) >= 2 THEN TRUE
    ELSE IF category_match(item) THEN TRUE
    ELSE has_cover(item)

\* is_literary with the title threshold len(query_words) - 1, without max(2, .)
is_literary_no_floor(item) ==
    IF language_guard(item) THEN FALSE
    ELSE IF year_guard(item) THEN FALSE
    ELSE IF banned_guard(item) THEN FALSE
    ELSE IF Len(query_words) > 0
            /\ title_matches(item) >= Len(query_words) - 1 THEN TRUE
    ELSE IF author_matches(item) >= 1 /\ Len(query_words) >= 2 THEN TRUE
    ELSE IF category_match(item) THEN TRUE
    ELSE has_cover(item)

\* is_literary(self, item)
is_literary(item) ==
    IF language_guard(item) THEN FALSE
    ELSE IF year_guard(item) THEN FALSE
    ELSE IF banned_guard(item) THEN FALSE
    ELSE IF Len(query_words) > 0
            /\ title_matches(item) >= max(2, Len(query_words) - 1) THEN TRUE
    ELSE IF author_matches(item) >= 1 /\ Len(query_words) >= 2 THEN TRUE
    ELSE IF category_match(item) THEN TRUE
    ELSE has_cover(item)

\* a filter that removes the rejected items from the list it is iterating,
\* so that the item after each removed one is never examined
RECURSIVE filter_results_in_place(_)
filter_results_in_place(raw_results) ==
    IF Len(raw_results) = 0 THEN <<>>
    ELSE IF is_literary(Head(raw_results))
    THEN <<Head(raw_results)>> \o filter_results_in_place(Tail(raw_results))
    ELSE IF Len(raw_results) = 1 THEN <<>>
    ELSE <<raw_results[2]>> \o filter_results_in_place(SubSeq(raw_results, 3, Len(raw_results)))

\* filter_results(self, raw_results)
filter_results(raw_results) == SelectSeq(raw_results, is_literary)

---------------------------------------------------------------------------
(* Synthetic genres. *)

\* extract_genres(self, info)
extract_genres(info) ==
    LET cats   == Get(info.categories, <<>>)
        text   == lower(Get(info.title, <<>>) \o s_space
                        \o Get(info.description, <<>>))
        genres == {c \in Range(cats) : lower(c) \notin banned}
                  \cup {m[2] : m \in {p \in mapping : contains(p[1], text)}}
    IN  IF genres = {} THEN s_Unknown
        ELSE join(s_comma, sorted_strings(genres))

---------------------------------------------------------------------------
(* Scoring and sorting. *)

\* a[i..i+k-1] = b[j..j+k-1]
block(a, b, i, j, k) ==
    /\ i + k - 1 <= Len(a)
    /\ j + k - 1 <= Len(b)
    /\ SubSeq(a, i, i + k - 1) = SubSeq(b, j, j + k - 1)

\* difflib.SequenceMatcher.find_longest_match on whole strings, no junk
\* (autojunk only acts on strings of 200 characters or more): <<i, j, k>> of
\* the longest common block, the earliest in a among the longest, then the
\* earliest in b; k = 0 when the strings share no character
find_longest_match(a, b) ==
    LET common(k) == \E i \in 1..Len(a) : \E j \in 1..Len(b) : block(a, b, i, j, k)
        k == Cardinality({n \in 1..Len(a) : common(n)})
        i == CHOOSE x \in 1..Len(a) :
                /\ \E j \in 1..Len(b) : block(a, b, x, j, k)
                /\ \A y \in 1..(x - 1) : ~ \E j \in 1..Len(b) : block(a, b, y, j, k)
        j == CHOOSE x \in 1..Len(b) :
                /\ block(a, b, i, x, k)
                /\ \A y \in 1..(x - 1) : ~ block(a, b, i, y, k)
    IN  IF k = 0 THEN <<0, 0, 0>> ELSE <<i, j, k>>

\* the number of matched characters of get_matching_blocks
RECURSIVE matches(_, _)
matches(a, b) ==
    LET t == find_longest_match(a, b)
    IN  IF Len(a) = 0 \/ Len(b) = 0 \/ t[3] = 0 THEN 0
        ELSE t[3]
             + matches(SubSeq(a, 1, t[1] - 1), SubSeq(b, 1, t[2] - 1))
             + matches(SubSeq(a, t[1] + t[3], Len(a)),
                       SubSeq(b, t[2] + t[3], Len(b)))

\* get_close_matches(q, [t], cutoff=0.6) is non-empty: ratio() = 2*M/T >= 0.6,
\* and 1.0 when both strings are empty
close_match(q, t) ==
    IF Len(q) + Len(t) = 0 THEN TRUE
    ELSE 10 * matches(t, q) >= 3 * (Len(q) + Len(t))

\* the bonuses of fuzzy_score
score_exact(title) == IF lower(title) = lower(query) THEN 1 ELSE 0
score_contains(title) == IF contains(lower(query), lower(title)) THEN 1 ELSE 0
score_author_hit(auth) == IF contains(lower(query), lower(auth)) THEN 1 ELSE 0
score_fuzzy(title) == IF close_match(lower(query), lower(title)) THEN 1 ELSE 0
score_word_hits(title) ==
    LET words == split(lower(query))
    IN  Cardinality({i \in 1..Len(words) : contains(words[i], lower(title))})

\* fuzzy_score with the exact-title bonus weighted 1 instead of 10
fuzzy_score_weak_exact(title, auth) ==
    score_exact(title) * 1 + score_contains(title) * 6 + score_author_hit(auth) * 5
    + score_fuzzy(title) * 3 + score_word_hits(title) * 2

\* fuzzy_score(self, title, authors)
fuzzy_score(title, auth) ==
    score_exact(title) * 10 + score_contains(title) * 6 + score_author_hit(auth) * 5
    + score_fuzzy(title) * 3 + score_word_hits(title) * 2

\* key(item) raises IndexError: info.get("authors", [""])[0] on an empty list
key_raises(item) == item.authors = << <<>> >>

\* year of the sort key
key_year(item) ==
    LET pub == Get(item.publishedDate, <<>>)
    IN  IF has_year(pub) THEN int(SubSeq(pub, 1, 4)) ELSE 0

\* key(item) with the year not negated: oldest first
key_year_ascending(item) ==
    LET title == Get(item.title, <<>>)
        first == Get(item.authors, << <<>> >>)[1]
    IN  IF sort = "year" THEN <<key_year(item), lower(title)>>
        ELSE IF sort = "author" THEN <<lower(first), lower(title)>>
        ELSE <<0 - fuzzy_score(title, join(s_space, Get(item.authors, <<>>))),
               lower(title)>>

\* key(item) of sort_results: the pair <<primary, secondary>>
key(item) ==
    LET title == Get(item.title, <<>>)
        first == Get(item.authors, << <<>> >>)[1]
    IN  IF sort = "year" THEN <<0 - key_year(item), lower(title)>>
        ELSE IF sort = "author" THEN <<lower(first), lower(title)>>
        ELSE <<0 - fuzzy_score(title, join(s_space, Get(item.authors, <<>>))),
               lower(title)>>

\* k1 < k2 for the tuples key returns
key_less(k1, k2) ==
    IF sort = "author"
    THEN str_less(k1[1], k2[1]) \/ (k1[1] = k2[1] /\ str_less(k1[2], k2[2]))
    ELSE k1[1] < k2[1] \/ (k1[1] = k2[1] /\ str_less(k1[2], k2[2]))

\* sort_insert that puts a pair before the pairs whose key equals its own
sort_insert_before_equal(s, x) ==
    LET p == Cardinality({i \in 1..Len(s) : key_less(s[i][1], x[1])})
    IN  SubSeq(s, 1, p) \o <<x>> \o SubSeq(s, p + 1, Len(s))

\* list.sort(key=key) computes every key once, then sorts the <<key, item>>
\* pairs by key; it is stable: a pair goes after every pair not greater than it
sort_insert(s, x) ==
    LET p == Cardinality({i \in 1..Len(s) : ~ key_less(x[1], s[i][1])})
    IN  SubSeq(s, 1, p) \o <<x>> \o SubSeq(s, p + 1, Len(s))

RECURSIVE sort_pairs(_)
sort_pairs(pairs) ==
    IF Len(pairs) = 0 THEN <<>>
    ELSE sort_insert(sort_pairs(SubSeq(pairs, 1, Len(pairs) - 1)), pairs[Len(pairs)])

\* sort_results(self, results), when no key raises
sort_results(list) ==
    LET sorted_pairs == sort_pairs([i \in 1..Len(list) |-> <<key(list[i]), list[i]>>])
    IN  [i \in 1..Len(list) |-> sorted_pairs[i][2]]

---------------------------------------------------------------------------
(* Conversion and pagination. *)

\* convert(self, item)
convert(item) ==
    LET pub   == Get(item.publishedDate, <<>>)
        links == Get(item.imageLinks, {})
    IN  [ id          |-> item.id,
          title       |-> item.title,
          authors     |-> join(s_comma, Get(item.authors, <<>>)),
          thumbnail   |-> IF \E l \in links : l[1] = "thumbnail"
                          THEN <<(CHOOSE l \in links : l[1] = "thumbnail")[2]>>
                          ELSE <<>>,
          description |-> Get(item.description, <<>>),
          year        |-> IF has_year(pub) THEN SubSeq(pub, 1, 4) ELSE <<>>,
          genres      |-> extract_genres(item) ]

\* get_page whose slice takes the element at index end as well
get_page_through_end(all_results, p) ==
    LET start == (p - 1) * per_page
        end   == p * per_page + 1
    IN  SubSeq(all_results, start + 1, IF end < Len(all_results) THEN end ELSE Len(all_results))

\* get_page(self, all_results, page): the slice [start:end] of page p
get_page(all_results, p) ==
    LET start == (p - 1) * per_page
        end   == p * per_page
    IN  SubSeq(all_results, start + 1, IF end < Len(all_results) THEN end ELSE Len(all_results))

---------------------------------------------------------------------------
(* The upstream catalog: what a request may answer. *)

t_Dune == <<68,117,110,101>>  \* "Dune"
t_DuneMessiah == <<68,117,110,101,32,77,101,115,115,105,97,104>>  \* "Dune Messiah"
t_SilentPatient == <<83,105,108,101,110,116,32,80,97,116,105,101,110,116>>  \* "Silent Patient"
t_TheSilentPatient == <<84,104,101,32,83,105,108,101,110,116,32,80,97,116,105,101,110,116>>  \* "The Silent Patient"
t_FrankHerbert == <<70,114,97,110,107,32,72,101,114,98,101,114,116>>  \* "Frank Herbert"
t_AlexMichaelides == <<65,108,101,120,32,77,105,99,104,97,101,108,105,100,101,115>>  \* "Alex Michaelides"
t_Fiction == <<70,105,99,116,105,111,110>>  \* "Fiction"
t_1965 == <<49,57,54,53>>  \* "1965"
t_2019 == <<50,48,49,57,45,48,50,45,48,53>>  \* "2019-02-05"
t_a_study == <<97,32,115,116,117,100,121>>  \* "a study"
t_raw_SilentPatient == <<32,83,105,108,101,110,116,32,80,97,116,105,101,110,116,32>>  \* " Silent Patient "

Item(id, title, description, auth, categories, language, publishedDate, imageLinks) ==
    [ id |-> id, title |-> title, description |-> description, authors |-> auth,
      categories |-> categories, language |-> language,
      publishedDate |-> publishedDate, imageLinks |-> imageLinks ]

Cover == << {<<"thumbnail", "http://t">>} >>

\* the volumes the upstream may return
Catalog ==
    { Item(<<"a">>, <<t_Dune>>, <<>>, << <<t_FrankHerbert, t_AlexMichaelides>> >>,
           << <<t_Fiction>> >>, <<s_en>>, <<t_1965>>, Cover),
      \* another record with the same identifier, which the filter rejects
      Item(<<"a">>, <<t_DuneMessiah>>, <<t_a_study>>, << <<t_FrankHerbert>> >>, <<>>,
           <<s_en>>, <<>>, Cover),
      \* a record with no identifier
      Item(<<>>, <<t_SilentPatient>>, <<>>, << <<t_AlexMichaelides>> >>, <<>>,
           <<s_en>>, <<t_2019>>, Cover),
      \* a record whose author list is present and empty
      Item(<<"b">>, <<t_TheSilentPatient>>, <<>>, << <<>> >>, <<>>,
           <<s_en>>, <<t_2019>>, Cover),
      \* a record with nothing but an identifier, a language and a cover
      Item(<<"d">>, <<>>, <<>>, <<>>, <<>>, <<s_en>>, <<>>, Cover) }

\* the sequences over S of length at most n
SeqsUpTo(S, n) == UNION { [1..k -> S] : k \in 0..n }

\* those that list no record twice (two records may still share an identifier)
ListsUpTo(S, n) ==
    { l \in SeqsUpTo(S, n) : \A i, j \in 1..Len(l) : i # j => l[i] # l[j] }

\* the outcomes of requests.get(...).json(): an exception, or a JSON object
\* with or without "items"
Raising == {"ConnectionError", "JSONDecodeError", "AttributeError"}

Responses ==
    { [kind |-> k, items |-> <<>>] : k \in Raising \cup {"error_object"} }
    \cup { [kind |-> "ok", items |-> <<l>>] : l \in ListsUpTo(Catalog, MaxResp) }

RawQueries == { t_Dune, t_raw_SilentPatient, <<>>, s_space }
Sorts == {"relevance", "year", "author"}

\* a second catalog, for queries about anthologies: two volumes that name six
\* authors of two words and one of one word, and one novel by each author
t_GreatNovels == <<71,114,101,97,116,32,78,111,118,101,108,115>>  \* "Great Novels"
t_Novels == <<78,111,118,101,108,115>>  \* "Novels"
t_GreatNovelsII == <<71,114,101,97,116,32,78,111,118,101,108,115,32,73,73>>  \* "Great Novels II"
t_AnnLee == <<65,110,110,32,76,101,101>>  \* "Ann Lee"
t_BobRay == <<66,111,98,32,82,97,121>>  \* "Bob Ray"
t_CyDow == <<67,121,32,68,111,119>>  \* "Cy Dow"
t_DiFox == <<68,105,32,70,111,120>>  \* "Di Fox"
t_EdGil == <<69,100,32,71,105,108>>  \* "Ed Gil"
t_FloHu == <<70,108,111,32,72,117>>  \* "Flo Hu"
t_Homer == <<72,111,109,101,114>>  \* "Homer"

WideAuthors == <<t_AnnLee, t_BobRay, t_CyDow, t_DiFox, t_EdGil, t_FloHu>>
WideQueries == { t_GreatNovels, t_Novels }

anthology_1 ==
    Item(<<"p">>, <<t_GreatNovels>>, <<>>, << <<t_AnnLee, t_BobRay, t_CyDow, t_Homer>> >>,
         << <<t_Fiction>> >>, <<s_en>>, <<t_1965>>, Cover)

anthology_2 ==
    Item(<<"q">>, <<t_GreatNovelsII>>, <<>>, << <<t_DiFox, t_EdGil, t_FloHu>> >>,
         << <<t_Fiction>> >>, <<s_en>>, <<t_1965>>, Cover)

novel_by(a) ==
    LET i == CHOOSE n \in 1..Len(WideAuthors) : WideAuthors[n] = a
    IN  Item(<<ToString(i)>>, <<t_GreatNovels>>, <<>>, << <<a>> >>,
             << <<t_Fiction>> >>, <<s_en>>, <<t_1965>>, Cover)

\* this catalog answers a request the same way every time
WideAnswer(request) ==
    [ kind  |-> "ok",
      items |-> << IF request.kind = "intitle_quoted" THEN <<anthology_1>>
                   ELSE IF request.kind = "intitle" THEN <<anthology_1, anthology_2>>
                   ELSE IF request.kind = "raw" THEN <<anthology_2, anthology_1>>
                   ELSE <<novel_by(request.author[1]), anthology_1>> >> ]

\* requests.get(self.url, params=params).json(): what the request may answer
Upstream(request) ==
    IF query \in WideQueries THEN { WideAnswer(request) } ELSE Responses

---------------------------------------------------------------------------
(* Fetching: fetch_raw_results, one action per upstream request. *)

author_cap == 5

\* the merge loop without the test "bid not in seen"
RECURSIVE merge_unseen(_, _, _)
merge_unseen(sn, rs, items) ==
    IF Len(items) = 0 THEN <<sn, rs>>
    ELSE LET bid == Get(Head(items).id, "")
         IN  IF bid # ""
             THEN merge_unseen(sn \cup {bid}, Append(rs, Head(items)), Tail(items))
             ELSE merge_unseen(sn, rs, Tail(items))

\* the merge loop with results.insert(0, item) for results.append(item)
RECURSIVE merge_front(_, _, _)
merge_front(sn, rs, items) ==
    IF Len(items) = 0 THEN <<sn, rs>>
    ELSE LET bid == Get(Head(items).id, "")
         IN  IF bid # "" /\ bid \notin sn
             THEN merge_front(sn \cup {bid}, <<Head(items)>> \o rs, Tail(items))
             ELSE merge_front(sn, rs, Tail(items))

\* the loop "for item in items" of both passes: <<seen, results>> afterwards
RECURSIVE merge(_, _, _)
merge(sn, rs, items) ==
    IF Len(items) = 0 THEN <<sn, rs>>
    ELSE LET bid == Get(Head(items).id, "")
         IN  IF bid # "" /\ bid \notin sn
             THEN merge(sn \cup {bid}, Append(rs, Head(items)), Tail(items))
             ELSE merge(sn, rs, Tail(items))

\* resp.get("items", []) or []
items_of(answer) == Get(answer.items, <<>>)

\* no request made yet, or fetch_raw_results has returned
no_resp == [kind |-> "none", items |-> <<>>]

\* the orders list(authors) may give a set, cut by authors[:5]
RECURSIVE orders(_)
orders(S) ==
    IF S = {} THEN { <<>> }
    ELSE UNION { { <<x>> \o o : o \in orders(S \ {x}) } : x \in S }

author_lists(S) ==
    { SubSeq(o, 1, IF Len(o) < author_cap THEN Len(o) ELSE author_cap) : o \in orders(S) }

\* the three queries of the first pass
variants == <<"intitle_quoted", "intitle", "raw">>

\* one iteration of "for q in queries"
FirstPassRequest ==
    /\ pc = "first_pass"
    /\ \E answer \in Upstream([kind |-> variants[qi + 1], author |-> <<>>]) :
        /\ reqs' = Append(reqs, [kind |-> variants[qi + 1], author |-> <<>>])
        /\ resp' = answer
        /\ IF answer.kind \in Raising
           THEN /\ pc' = "raised"
                /\ err' = answer.kind
                /\ UNCHANGED <<qi, seen, results, first_results, authors>>
           ELSE LET m == merge(seen, results, items_of(answer))
                IN  /\ seen' = m[1]
                    /\ results' = m[2]
                    /\ qi' = qi + 1
                    /\ err' = err
                    /\ IF qi + 1 < Len(variants)
                       THEN /\ pc' = "first_pass"
                            /\ UNCHANGED <<authors, first_results>>
                       ELSE /\ first_results' = m[2]
                            /\ IF is_ambiguous_title /\ extract_authors(m[2]) # {}
                               THEN /\ pc' = "second_pass"
                                    /\ authors' \in author_lists(extract_authors(m[2]))
                               ELSE pc' = "filter" /\ authors' = authors
    /\ UNCHANGED <<query, sort, ai, filtered, sorted_results, out, page_vars, shelf_vars>>

\* one iteration of "for author in authors[:5]"
SecondPassRequest ==
    /\ pc = "second_pass"
    /\ \E answer \in Upstream([kind |-> "inauthor", author |-> <<authors[ai + 1]>>]) :
        /\ reqs' = Append(reqs, [kind |-> "inauthor", author |-> <<authors[ai + 1]>>])
        /\ resp' = answer
        /\ IF answer.kind \in Raising
           THEN /\ pc' = "raised"
                /\ err' = answer.kind
                /\ UNCHANGED <<ai, seen, results>>
           ELSE LET m == merge(seen, results, items_of(answer))
                IN  /\ seen' = m[1]
                    /\ results' = m[2]
                    /\ ai' = ai + 1
                    /\ err' = err
                    /\ pc' = IF ai + 1 < Len(authors) THEN "second_pass" ELSE "filter"
    /\ UNCHANGED <<query, sort, first_results, qi, authors, filtered, sorted_results, out, page_vars, shelf_vars>>

---------------------------------------------------------------------------
(* The rest of process(): filter, sort, convert. *)

Filter ==
    /\ pc = "filter"
    /\ filtered' = filter_results(results)
    /\ pc' = "sort"
    /\ resp' = no_resp
    /\ UNCHANGED <<query, sort, first_results, qi, seen, results, authors, ai, reqs,
                   sorted_results, out, err, page_vars, shelf_vars>>

Sort ==
    /\ pc = "sort"
    /\ IF \E i \in 1..Len(filtered) : key_raises(filtered[i])
       THEN /\ pc' = "raised"
            /\ err' = "IndexError"
            /\ UNCHANGED sorted_results
       ELSE /\ sorted_results' = sort_results(filtered)
            /\ pc' = "convert"
            /\ err' = err
    /\ UNCHANGED <<query, sort, first_results, qi, seen, results, authors, ai, reqs, resp, filtered, out,
                   page_vars, shelf_vars>>

Convert ==
    /\ pc = "convert"
    /\ out' = [i \in 1..Len(sorted_results) |-> convert(sorted_results[i])]
    /\ pc' = "done"
    /\ UNCHANGED <<query, sort, first_results, qi, seen, results, authors, ai, reqs, resp,
                   filtered, sorted_results, err, page_vars, shelf_vars>>

\* a request to a collection route that has not arrived yet
no_handler == [op |-> "none", at |-> "idle", col |-> "", book |-> "", rows |-> {}]

\* empty tables, no request to the collection routes
no_shelf ==
    /\ books = {}
    /\ collections = {}
    /\ entries = {}
    /\ next_id = 1
    /\ fk_enforced = TRUE
    /\ handlers = [h \in 1..MaxRequests |-> no_handler]

\* no page cut yet: request.args.get('page', 1, type=int) without the argument
first_page ==
    /\ page = 1
    /\ books_page = <<>>
    /\ has_more = FALSE
    /\ shown = <<>>

\* BookSearchService(query, sort) constructed, process() about to run
Init ==
    /\ query \in { init_query(raw) : raw \in RawQueries }
    /\ sort \in Sorts
    /\ pc = "first_pass"
    /\ qi = 0
    /\ seen = {}
    /\ results = <<>>
    /\ first_results = <<>>
    /\ authors = <<>>
    /\ ai = 0
    /\ reqs = <<>>
    /\ resp = no_resp
    /\ filtered = <<>>
    /\ sorted_results = <<>>
    /\ out = <<>>
    /\ err = ""
    /\ first_page
    /\ no_shelf

Next ==
    \/ FirstPassRequest
    \/ SecondPassRequest
    \/ Filter
    \/ Sort
    \/ Convert

Spec == Init /\ [][Next]_vars

---------------------------------------------------------------------------
(* filter_results, sort_results and convert on their own: the same steps,  *)
(* started on lists drawn from wider sets of items than the catalog above. *)

t_fr == <<102,114>>  \* "fr"
t_1850 == <<49,56,53,48>>  \* "1850"
t_18 == <<49,56>>  \* "18"
t_Gaslight == <<71,97,115,108,105,103,104,116>>  \* "Gaslight"
t_A_Study == <<65,32,83,116,117,100,121>>  \* "A Study"
t_A_Novel == <<65,32,78,111,118,101,108>>  \* "A Novel"
t_SilentBob == <<83,105,108,101,110,116,32,66,111,98>>  \* "Silent Bob"
t_History == <<72,105,115,116,111,114,121>>  \* "History"
t_JuvenileFiction == <<74,117,118,101,110,105,108,101,32,70,105,99,116,105,111,110>>  \* "Juvenile Fiction"
t_q_SILENT_patient == <<83,73,76,69,78,84,32,112,97,116,105,101,110,116>>  \* "SILENT patient"
t_q_TheSilentPatientBook == <<116,104,101,32,115,105,108,101,110,116,32,112,97,116,105,101,110,116,32,98,111,111,107>>  \* "the silent patient book"
t_q_of == <<111,102>>  \* "of"
t_Geology == <<71,101,111,108,111,103,121>>  \* "Geology"
t_Fantasy == <<70,97,110,116,97,115,121>>  \* "Fantasy"
t_SpaceHeroes == <<83,112,97,99,101,32,72,101,114,111,101,115>>  \* "Space Heroes"
t_a_magic_hero == <<97,32,109,97,103,105,99,32,104,101,114,111>>  \* "a magic hero"
t_SCIFI == <<83,67,73,45,70,73>>  \* "SCI-FI"
t_geology == <<103,101,111,108,111,103,121>>  \* "geology"
t_DUNE == <<68,85,78,69>>  \* "DUNE"
t_DuneII == <<68,117,110,101,32,73,73>>  \* "Dune II"
t_Emma == <<69,109,109,97>>  \* "Emma"
t_emma == <<101,109,109,97>>  \* "emma"
t_dune == <<100,117,110,101>>  \* "dune"
t_JaneAusten == <<74,97,110,101,32,65,117,115,116,101,110>>  \* "Jane Austen"
t_jane == <<106,97,110,101>>  \* "jane"
t_1815 == <<49,56,49,53>>  \* "1815"
t_1965_06 == <<49,57,54,53,45,48,54>>  \* "1965-06"
t_n_d == <<110,46,100,46>>  \* "n.d."
t_q_EmmaDune == <<101,109,109,97,32,100,117,110,101>>  \* "emma dune"

idle(p) ==
    /\ pc = p
    /\ qi = 0
    /\ seen = {}
    /\ authors = <<>>
    /\ ai = 0
    /\ reqs = <<>>
    /\ resp = no_resp
    /\ out = <<>>
    /\ err = ""
    /\ first_page
    /\ no_shelf

\* items that differ in every field is_literary reads
LitItems ==
    { Item(<<"x">>, ti, de, au, ca, la, pu, im) :
        ti \in { <<>>, <<t_Dune>>, <<t_TheSilentPatient>>, <<t_Gaslight>> },
        de \in { <<>>, <<t_A_Study>>, <<t_A_Novel>> },
        au \in { <<>>, << <<>> >>, << <<t_AlexMichaelides>> >>, << <<t_SilentBob>> >> },
        ca \in { <<>>, << <<t_History>> >>, << <<t_JuvenileFiction>> >>, << << <<>> >> >> },
        la \in { <<>>, <<s_en>>, <<t_fr>> },
        pu \in { <<>>, <<t_1850>>, <<t_1965>>, <<t_18>> },
        im \in { <<>>, <<{}>>, Cover } }

LitQueries == { t_Dune, t_q_SILENT_patient, t_q_TheSilentPatientBook, t_q_of }

InitLiterary ==
    /\ query \in { init_query(raw) : raw \in LitQueries }
    /\ sort = "relevance"
    /\ results \in { <<it>> : it \in LitItems } \cup SeqsUpTo(Catalog, MaxList)
    /\ first_results = results
    /\ filtered = <<>>
    /\ sorted_results = <<>>
    /\ idle("filter")

SpecLiterary == InitLiterary /\ [][Filter]_vars

\* items that differ in every field the sort keys read
SortPool ==
    { Item(<<"1">>, <<t_Dune>>, <<>>, << <<t_FrankHerbert>> >>, <<>>, <<s_en>>, <<t_1965>>, <<>>),
      Item(<<"2">>, <<t_DUNE>>, <<>>, <<>>, <<>>, <<s_en>>, <<t_n_d>>, <<>>),
      Item(<<"3">>, <<t_DuneII>>, <<>>, << <<t_Dune>>, <<t_jane>> >>, <<>>, <<s_en>>, <<t_1965_06>>, <<>>),
      Item(<<"4">>, <<t_Emma>>, <<>>, << <<t_JaneAusten>> >>, <<>>, <<s_en>>, <<t_1815>>, <<>>),
      Item(<<"5">>, <<t_emma>>, <<>>, << <<t_jane>> >>, <<>>, <<s_en>>, <<>>, <<>>),
      Item(<<"6">>, <<>>, <<>>, << <<>> >>, <<>>, <<s_en>>, <<t_1965>>, <<>>),
      Item(<<"7">>, <<t_dune>>, <<>>, << <<t_FrankHerbert>> >>, <<>>, <<s_en>>, <<t_1965_06>>, <<>>) }

SortQueries == { t_Dune, t_q_EmmaDune }
SortModes == Sorts \cup {"title"}

InitSort ==
    /\ query \in { init_query(raw) : raw \in SortQueries }
    /\ sort \in SortModes
    /\ results = <<>>
    /\ first_results = <<>>
    /\ filtered \in SeqsUpTo(SortPool, MaxList)
    /\ sorted_results = <<>>
    /\ idle("sort")

SpecSort == InitSort /\ [][Sort]_vars

\* items that differ in every field extract_genres reads
GenreItems ==
    { Item(<<"x">>, ti, de, <<>>, ca, <<s_en>>, <<>>, <<>>) :
        ti \in { <<>>, <<t_Dune>>, <<t_SpaceHeroes>>, <<t_Fantasy>> },
        de \in { <<>>, << <<>> >>, <<t_a_magic_hero>>, <<t_SCIFI>> },
        ca \in { <<>>, << <<>> >>, << << <<>> >> >>, << <<t_Fiction>> >>,
                 << <<t_Geology>> >>, << <<t_Fiction, t_Fantasy>> >>,
                 << <<t_geology, <<>> >> >> } }

InitGenres ==
    /\ query = init_query(t_Dune)
    /\ sort = "relevance"
    /\ results = <<>>
    /\ first_results = <<>>
    /\ filtered = <<>>
    /\ sorted_results \in { <<it>> : it \in GenreItems }
    /\ idle("convert")

SpecGenres == InitGenres /\ [][Convert]_vars

\* process() on the anthology catalog, which names more than author_cap authors
InitAuthors ==
    /\ query \in { init_query(raw) : raw \in WideQueries }
    /\ sort \in Sorts
    /\ results = <<>>
    /\ first_results = <<>>
    /\ filtered = <<>>
    /\ sorted_results = <<>>
    /\ idle("first_pass")

SpecAuthors == InitAuthors /\ [][Next]_vars

---------------------------------------------------------------------------
(* The caller of the pipeline: search_books cuts one page of the list      *)
(* process() returned and tells the template whether more pages follow.    *)

\* has_more = len(all_books) > page * service.per_page, with >= for >
has_more_flag_at_least(all_books, p) == Len(all_books) >= p * per_page

\* has_more = len(all_books) > page * service.per_page
has_more_flag(all_books, p) == Len(all_books) > p * per_page

\* the i-th record of a result list: records that differ in their identifier
book(i) ==
    convert(Item(<<ToString(i)>>, <<t_Dune>>, <<>>, << <<t_FrankHerbert>> >>,
                 << <<t_Fiction>> >>, <<s_en>>, <<t_1965>>, Cover))

\* search_books after process() has returned all_books (here: out)
SearchBooksPage ==
    /\ pc = "done"
    /\ books_page' = get_page(out, page)
    /\ has_more' = has_more_flag(out, page)
    /\ shown' = shown \o books_page'
    /\ pc' = "rendered"
    /\ UNCHANGED <<query, sort, first_results, qi, seen, results, authors, ai, reqs, resp,
                   filtered, sorted_results, out, err, page, shelf_vars>>

\* the next request asks for the following page of the same search
NextPage ==
    /\ pc = "rendered"
    /\ page < MaxPage
    /\ page' = page + 1
    /\ pc' = "done"
    /\ UNCHANGED <<query, sort, first_results, qi, seen, results, authors, ai, reqs, resp,
                   filtered, sorted_results, out, err, books_page, has_more, shown,
                   shelf_vars>>

\* process() has returned a list of 0..MaxBooks records; page 1 is asked for
InitPage ==
    /\ query = init_query(t_Dune)
    /\ sort \in Sorts
    /\ pc = "done"
    /\ qi = 0
    /\ seen = {}
    /\ results = <<>>
    /\ first_results = <<>>
    /\ authors = <<>>
    /\ ai = 0
    /\ reqs = <<>>
    /\ resp = no_resp
    /\ filtered = <<>>
    /\ sorted_results = <<>>
    /\ out \in { [i \in 1..n |-> book(i)] : n \in 0..MaxBooks }
    /\ err = ""
    /\ first_page
    /\ no_shelf

NextSearchPage ==
    \/ SearchBooksPage
    \/ NextPage

SpecPage == InitPage /\ [][NextSearchPage]_vars

---------------------------------------------------------------------------
(* The collection routes of app.py.  Requests are served concurrently; a   *)
(* handler is a sequence of database statements, one step each, and other  *)
(* handlers may run between two of them.  A statement reads the rows       *)
(* committed so far; the writes of a handler take effect at its commit.    *)
(* The quotes delete_book removes and the owner of the rows (every row     *)
(* here belongs to current_user) are left out.                             *)

Books == {"b1"}
Cols == {"c1"}
Routes == {"add_to_collection", "remove_from_collection", "delete_book", "delete_collection"}

\* a row of collection_book
CollectionBook(id, collection_id, book_id, position) ==
    [id |-> id, collection_id |-> collection_id, book_id |-> book_id, position |-> position]

\* CollectionBook.query.filter_by(collection_id=c, book_id=b)
entries_of(c, b) == { e \in entries : e.collection_id = c /\ e.book_id = b }

\* (max_position + 1) if max_position is not None else 0
next_position(c) ==
    LET ps == { e.position : e \in { x \in entries : x.collection_id = c } }
    IN  IF ps = {} THEN 0 ELSE (CHOOSE m \in ps : \A q \in ps : q <= m) + 1

\* handler h moves to step a
goes(h, a) == handlers' = [handlers EXCEPT ![h].at = a]

\* a request arrives; the requests are numbered in the order they arrive
StartRequest ==
    \E h \in 1..MaxRequests : \E op \in Routes : \E c \in Cols : \E b \in Books :
        /\ handlers[h].at = "idle"
        /\ \A g \in 1..(h - 1) : handlers[g].at # "idle"
        /\ handlers' = [handlers EXCEPT
                ![h] = [op |-> op, at |-> "load", col |-> c, book |-> b, rows |-> {}]]
        /\ UNCHANGED <<search_vars, books, collections, entries, next_id, fk_enforced>>

\* add_to_collection: col = ...first(); book = ...first(); if not col or not book
AddLoad ==
    \E h \in 1..MaxRequests :
        /\ handlers[h].op = "add_to_collection" /\ handlers[h].at = "load"
        /\ IF handlers[h].col \in collections /\ handlers[h].book \in books
           THEN goes(h, "check") ELSE goes(h, "done")
        /\ UNCHANGED <<search_vars, books, collections, entries, next_id, fk_enforced>>

\* add_to_collection: existing = ...first(); if existing: return
AddCheck ==
    \E h \in 1..MaxRequests :
        /\ handlers[h].op = "add_to_collection" /\ handlers[h].at = "check"
        /\ IF entries_of(handlers[h].col, handlers[h].book) # {}
           THEN goes(h, "done") ELSE goes(h, "insert")
        /\ UNCHANGED <<search_vars, books, collections, entries, next_id, fk_enforced>>

\* add_to_collection: max_position, db.session.add(entry), db.session.commit();
\* a database that checks foreign keys refuses a row whose book or collection
\* is gone (IntegrityError)
AddInsert ==
    \E h \in 1..MaxRequests :
        /\ handlers[h].op = "add_to_collection" /\ handlers[h].at = "insert"
        /\ IF fk_enforced /\ ~ (handlers[h].col \in collections /\ handlers[h].book \in books)
           THEN goes(h, "failed") /\ UNCHANGED <<entries, next_id>>
           ELSE /\ entries' = entries \cup
                       { CollectionBook(next_id, handlers[h].col, handlers[h].book,
                                        next_position(handlers[h].col)) }
                /\ next_id' = next_id + 1
                /\ goes(h, "done")
        /\ UNCHANGED <<search_vars, books, collections, fk_enforced>>

\* remove_from_collection: col = ...first_or_404(); book = ...first_or_404()
RemoveLoad ==
    \E h \in 1..MaxRequests :
        /\ handlers[h].op = "remove_from_collection" /\ handlers[h].at = "load"
        /\ IF handlers[h].col \in collections /\ handlers[h].book \in books
           THEN goes(h, "find") ELSE goes(h, "done")
        /\ UNCHANGED <<search_vars, books, collections, entries, next_id, fk_enforced>>

\* remove_from_collection: entry = ...first(); any one of the matching rows
RemoveFind ==
    \E h \in 1..MaxRequests :
        /\ handlers[h].op = "remove_from_collection" /\ handlers[h].at = "find"
        /\ IF entries_of(handlers[h].col, handlers[h].book) = {}
           THEN goes(h, "done")
           ELSE \E e \in entries_of(handlers[h].col, handlers[h].book) :
                    handlers' = [handlers EXCEPT ![h].at = "delete", ![h].rows = {e}]
        /\ UNCHANGED <<search_vars, books, collections, entries, next_id, fk_enforced>>

\* remove_from_collection: db.session.delete(entry); db.session.commit()
RemoveDelete ==
    \E h \in 1..MaxRequests :
        /\ handlers[h].op = "remove_from_collection" /\ handlers[h].at = "delete"
        /\ entries' = entries \ handlers[h].rows
        /\ goes(h, "done")
        /\ UNCHANGED <<search_vars, books, collections, next_id, fk_enforced>>

\* delete_book: book = ...first_or_404()
DeleteBookLoad ==
    \E h \in 1..MaxRequests :
        /\ handlers[h].op = "delete_book" /\ handlers[h].at = "load"
        /\ IF handlers[h].book \in books THEN goes(h, "rows") ELSE goes(h, "done")
        /\ UNCHANGED <<search_vars, books, collections, entries, next_id, fk_enforced>>

\* delete_book: CollectionBook.query.filter_by(book_id=book.id).delete(),
\* which removes the rows that exist when the statement runs
DeleteBookRows ==
    \E h \in 1..MaxRequests :
        /\ handlers[h].op = "delete_book" /\ handlers[h].at = "rows"
        /\ handlers' = [handlers EXCEPT
                ![h].at = "commit",
                ![h].rows = { e \in entries : e.book_id = handlers[h].book }]
        /\ UNCHANGED <<search_vars, books, collections, entries, next_id, fk_enforced>>

\* delete_book: db.session.delete(book); db.session.commit(); a database
\* that checks foreign keys refuses while a row still names the book, and
\* the transaction is rolled back
DeleteBookCommit ==
    \E h \in 1..MaxRequests :
        /\ handlers[h].op = "delete_book" /\ handlers[h].at = "commit"
        /\ IF fk_enforced
              /\ \E e \in entries \ handlers[h].rows : e.book_id = handlers[h].book
           THEN goes(h, "failed") /\ UNCHANGED <<books, entries>>
           ELSE /\ entries' = entries \ handlers[h].rows
                /\ books' = books \ {handlers[h].book}
                /\ goes(h, "done")
        /\ UNCHANGED <<search_vars, collections, next_id, fk_enforced>>

\* delete_collection: col = ...first_or_404()
DeleteCollectionLoad ==
    \E h \in 1..MaxRequests :
        /\ handlers[h].op = "delete_collection" /\ handlers[h].at = "load"
        /\ IF handlers[h].col \in collections THEN goes(h, "commit") ELSE goes(h, "done")
        /\ UNCHANGED <<search_vars, books, collections, entries, next_id, fk_enforced>>

\* delete_collection: db.session.delete(col); db.session.commit(); the
\* cascade "all, delete-orphan" removes the rows of the collection with it
DeleteCollectionCommit ==
    \E h \in 1..MaxRequests :
        /\ handlers[h].op = "delete_collection" /\ handlers[h].at = "commit"
        /\ entries' = { e \in entries : e.collection_id # handlers[h].col }
        /\ collections' = collections \ {handlers[h].col}
        /\ goes(h, "done")
        /\ UNCHANGED <<search_vars, books, next_id, fk_enforced>>

\* one user with a book and a collection, the book in the collection or not
InitShelf ==
    /\ query = <<>>
    /\ sort = "relevance"
    /\ results = <<>>
    /\ first_results = <<>>
    /\ filtered = <<>>
    /\ sorted_results = <<>>
    /\ pc = "done"
    /\ qi = 0
    /\ seen = {}
    /\ authors = <<>>
    /\ ai = 0
    /\ reqs = <<>>
    /\ resp = no_resp
    /\ out = <<>>
    /\ err = ""
    /\ first_page
    /\ books = Books
    /\ collections = Cols
    /\ \E present \in SUBSET (Cols \X Books) :
        /\ Cardinality(present) <= 1
        /\ entries = { CollectionBook(1, cb[1], cb[2], 0) : cb \in present }
        /\ next_id = Cardinality(present) + 1
    /\ fk_enforced \in BOOLEAN
    /\ handlers = [h \in 1..MaxRequests |-> no_handler]

NextShelf ==
    \/ StartRequest
    \/ AddLoad
    \/ AddCheck
    \/ AddInsert
    \/ RemoveLoad
    \/ RemoveFind
    \/ RemoveDelete
    \/ DeleteBookLoad
    \/ DeleteBookRows
    \/ DeleteBookCommit
    \/ DeleteCollectionLoad
    \/ DeleteCollectionCommit

SpecShelf == InitShelf /\ [][NextShelf]_vars

---------------------------------------------------------------------------
(* Properties. *)

ids_distinct(list) ==
    \A i, j \in 1..Len(list) : i # j => list[i].id # list[j].id

\* C1: in every state of a run of process(), the list fetch_raw_results is
\* building holds no two items with the same catalog identifier, and neither
\* does the list of records process() returns.
C1_NoDuplicateIdentifiers ==
    /\ ids_distinct(results)
    /\ ids_distinct(filtered)
    /\ ids_distinct(sorted_results)
    /\ ids_distinct(out)

\* the author-expansion pass ran, and its last answer offered a record whose
\* identifier had been seen: the record was dropped, two others are kept
C1_DuplicateOffered ==
    /\ Len(reqs) > Len(variants)
    /\ resp.kind = "ok"
    /\ \E i \in 1..Len(items_of(resp)) :
        /\ Get(items_of(resp)[i].id, "") \in seen
        /\ items_of(resp)[i] \notin Range(results)
    /\ Len(results) >= 2

\* C2: an upstream request that fails (network error, undecodable or
\* malformed payload) is never fatal: process() does not end with the
\* exception of a request.
C2_UpstreamFailureNeverFatal == ~ (pc = "raised" /\ err \in Raising)

\* C3: filter, sort and convert complete without raising whatever fields of
\* the items are absent or empty: process() ends with no exception other
\* than an upstream one.
C3_AbsentFieldsNeverRaise == ~ (pc = "raised" /\ err \notin Raising)

\* the rejection rules as the specification words them
no_banned_keyword(item) ==
    ~ \E w \in banned :
        \/ contains(w, lower(Get(item.title, <<>>)))
        \/ contains(w, lower(Get(item.description, <<>>)))

year_before_1900(item) ==
    LET pub == Get(item.publishedDate, <<>>)
    IN  /\ Len(pub) >= 4
        /\ isdigit(SubSeq(pub, 1, 4))
        /\ int(SubSeq(pub, 1, 4)) < 1900

literary_category(item) ==
    LET cats == Get(item.categories, <<>>)
    IN  \E i \in 1..Len(cats) : \E k \in literary_clues : contains(k, lower(cats[i]))

cover_present(item) == item.imageLinks # <<>> /\ item.imageLinks[1] # {}

\* C4: an item with no language code is not rejected by the language rule:
\* with no banned keyword, a year absent or >= 1900, and a literary
\* category or a cover, filter_results keeps it.
C4_AbsentLanguageNotRejected ==
    pc = "sort" =>
        \A i \in 1..Len(results) :
            ( /\ results[i].language = <<>>
              /\ no_banned_keyword(results[i])
              /\ ~ year_before_1900(results[i])
              /\ (literary_category(results[i]) \/ cover_present(results[i])) )
            => results[i] \in Range(filtered)

\* C5: an item with a banned keyword in its lower-cased title or description,
\* or with a year prefix below 1900, is never in the output of filter_results.
C5_RejectionTakesPrecedence ==
    pc = "sort" =>
        \A i \in 1..Len(results) :
            (~ no_banned_keyword(results[i]) \/ year_before_1900(results[i]))
            => results[i] \notin Range(filtered)

\* the significant tokens of the query, and how many of them a text holds
significant_tokens ==
    LET words == split(lower(query))
    IN  [i \in {j \in 1..Len(words) : Len(words[j]) > 3} |-> words[i]]

tokens_in(text) ==
    Cardinality({i \in DOMAIN significant_tokens : contains(significant_tokens[i], text)})

\* an item of 1850 with a strong title match, a literary category and a cover
\* was rejected
C5_StrongMatchRejected ==
    /\ pc = "sort"
    /\ Len(results) = 1
    /\ year_before_1900(results[1])
    /\ tokens_in(lower(Get(results[1].title, <<>>))) >= 2
    /\ literary_category(results[1])
    /\ cover_present(results[1])
    /\ filtered = <<>>

\* the item is past the language, year and banned-keyword guards
past_guards(item) ==
    /\ item.language = <<s_en>>
    /\ ~ year_before_1900(item)
    /\ no_banned_keyword(item)

RECURSIVE is_subsequence(_, _)
is_subsequence(a, b) ==
    IF Len(a) = 0 THEN TRUE
    ELSE IF Len(b) = 0 THEN FALSE
    ELSE IF Head(a) = Head(b) THEN is_subsequence(Tail(a), Tail(b))
    ELSE is_subsequence(a, Tail(b))

\* C7: filter_results is idempotent and order-preserving: filtering its
\* output again gives the same list, and its output is a subsequence of its
\* input.
C7_FilterIdempotent ==
    pc = "sort" =>
        /\ filter_results(filtered) = filtered
        /\ is_subsequence(filtered, results)

\* a list of three lost its middle item and kept the other two
C7_MiddleDropped ==
    /\ pc = "sort"
    /\ Len(results) = 3
    /\ filtered = <<results[1], results[3]>>
    /\ results[2] \notin Range(filtered)

\* C8: every record convert produces has a non-empty genres field, whatever
\* the categories (banned keywords and empty strings included).
C8_GenresNeverEmpty ==
    pc = "done" => \A i \in 1..Len(out) : out[i].genres # <<>>

count(x, list) == Cardinality({i \in 1..Len(list) : list[i] = x})

is_permutation(a, b) ==
    /\ Len(a) = Len(b)
    /\ \A x \in Range(a) \cup Range(b) : count(x, a) = count(x, b)

\* the two-part key of each mode, as the specification words it
claimed_key(item) ==
    LET pub   == Get(item.publishedDate, <<>>)
        year  == IF Len(pub) >= 4 /\ isdigit(SubSeq(pub, 1, 4))
                 THEN int(SubSeq(pub, 1, 4)) ELSE 0
        title == lower(Get(item.title, <<>>))
        first == IF item.authors = <<>> THEN <<>> ELSE item.authors[1][1]
    IN  IF sort = "year" THEN <<0 - year, title>>
        ELSE IF sort = "author" THEN <<lower(first), title>>
        ELSE <<0 - fuzzy_score(Get(item.title, <<>>),
                               join(s_space, Get(item.authors, <<>>))), title>>

claimed_key_greater(k1, k2) ==
    LET primary_greater ==
            IF sort = "author" THEN str_less(k2[1], k1[1]) ELSE k2[1] < k1[1]
    IN  primary_greater \/ (k1[1] = k2[1] /\ str_less(k2[2], k1[2]))

\* C9: the list sort_results returns is a permutation of its input and is
\* non-decreasing in the two-part key of the mode.
C9_SortedByModeKey ==
    pc = "convert" =>
        /\ is_permutation(sorted_results, filtered)
        /\ \A i, j \in 1..Len(sorted_results) :
            i < j => ~ claimed_key_greater(claimed_key(sorted_results[i]),
                                           claimed_key(sorted_results[j]))

\* in year mode an item with an unparseable date came first and left last
C9_UnparseableYearLast ==
    /\ pc = "convert"
    /\ sort = "year"
    /\ Len(filtered) = 3
    /\ Get(filtered[1].publishedDate, <<>>) # <<>>
    /\ ~ has_year(Get(filtered[1].publishedDate, <<>>))
    /\ sorted_results[3] = filtered[1]
    /\ sorted_results[1] # filtered[2]

title_is_query(item) == lower(Get(item.title, <<>>)) = lower(query)

\* C10: in relevance mode an item whose lower-cased title equals the
\* lower-cased query scores at least 10 and comes before every item whose
\* title does not equal the query.
C10_ExactTitleFirst ==
    (pc = "convert" /\ sort \notin {"year", "author"}) =>
        \A i, j \in 1..Len(sorted_results) :
            (title_is_query(sorted_results[i]) /\ ~ title_is_query(sorted_results[j]))
            => /\ fuzzy_score(Get(sorted_results[i].title, <<>>),
                              join(s_space, Get(sorted_results[i].authors, <<>>))) >= 10
               /\ i < j

\* an exact title with no author bonus overtook an item that holds the query
\* in its title and in its authors and came first in the input
C10_ExactOvertakes ==
    /\ pc = "convert"
    /\ sort = "relevance"
    /\ Len(filtered) = 2
    /\ ~ title_is_query(filtered[1])
    /\ contains(lower(query), lower(Get(filtered[1].title, <<>>)))
    /\ contains(lower(query), lower(join(s_space, Get(filtered[1].authors, <<>>))))
    /\ title_is_query(filtered[2])
    /\ filtered[2].authors = <<>>
    /\ sorted_results = <<filtered[2], filtered[1]>>

\* the items of a list whose two-part key is k, in the order of the list
with_key(list, k) ==
    LET has_key(item) == claimed_key(item) = k
    IN  SelectSeq(list, has_key)

\* C11: sort_results is stable in every mode: the items that share one
\* primary and secondary key leave the sort in the order they entered it.
C11_SortStable ==
    pc = "convert" =>
        \A k \in { claimed_key(filtered[i]) : i \in 1..Len(filtered) } :
            with_key(sorted_results, k) = with_key(filtered, k)

\* in year mode two different items of one year and one lower-cased title
\* entered around an older book and left next to each other, in input order
C11_TieKeepsInputOrder ==
    /\ pc = "convert"
    /\ sort = "year"
    /\ Len(filtered) = 3
    /\ filtered[1] # filtered[3]
    /\ claimed_key(filtered[1]) = claimed_key(filtered[3])
    /\ sorted_results = <<filtered[1], filtered[3], filtered[2]>>

\* C12: for every list and every page >= 1, get_page returns exactly the
\* elements at the zero-based indices [(page-1)*per_page, page*per_page) of
\* the list: at most per_page of them, and none beyond the end of the list.
C12_PageIsTheSlice ==
    pc = "rendered" =>
        LET start == (page - 1) * per_page
        IN  /\ Len(books_page) <= per_page
            /\ \A i \in 1..Len(books_page) :
                   start + i <= Len(out) /\ books_page[i] = out[start + i]
            /\ \A i \in 1..Len(out) :
                   (start < i /\ i <= start + per_page) => i - start <= Len(books_page)
            /\ start >= Len(out) => books_page = <<>>

\* a page past the end of a list of more than two pages came back empty
C12_PageBeyondEnd ==
    /\ pc = "rendered"
    /\ Len(out) > 2 * per_page
    /\ (page - 1) * per_page >= Len(out)
    /\ books_page = <<>>

\* C15: has_more is true iff the next page is not empty, i.e. iff the pages
\* up to this one do not cover the list; the pages from 1 on, put one after
\* another, are a prefix of the list and are the whole list once has_more
\* is false.
C15_HasMoreIffNextPage ==
    pc = "rendered" =>
        /\ has_more <=> get_page(out, page + 1) # <<>>
        /\ has_more <=> Len(shown) < Len(out)
        /\ shown = SubSeq(out, 1, Len(shown))
        /\ ~ has_more => shown = out

\* the second of two pages ended exactly at the end of the list
C15_LastPageFull ==
    /\ pc = "rendered"
    /\ page = 2
    /\ Len(out) = 2 * per_page
    /\ ~ has_more
    /\ Len(books_page) = per_page
    /\ shown = out

\* fetch_raw_results is over: it returned, or an exception left it
fetch_over == pc \notin {"first_pass", "second_pass"}
fetch_returned == fetch_over /\ ~ (pc = "raised" /\ err \in Raising)

\* the query splits into two tokens or more, each longer than 3 characters,
\* none of them all digits
two_long_words ==
    LET words == split(query)
    IN  /\ Len(words) >= 2
        /\ \A i \in 1..Len(words) : Len(words[i]) > 3 /\ ~ isdigit(words[i])

\* k: the distinct authors of two words or more in the first-pass results
candidates == extract_authors(first_results)

expected_requests ==
    IF two_long_words
    THEN 3 + (IF Cardinality(candidates) < 5 THEN Cardinality(candidates) ELSE 5)
    ELSE 3

\* C13: when a fetch is over it has issued 3 requests if the query is not
\* two or more long non-numeric tokens, and 3 + min(5, k) requests if it
\* is, the author requests being issued only in that case.
C13_RequestCount ==
    fetch_over =>
        /\ Len(reqs) = expected_requests
        /\ (\E i \in 1..Len(reqs) : reqs[i].kind = "inauthor") => two_long_words

\* the same count, for the fetches that returned
RequestCountWhenReturned ==
    fetch_returned =>
        /\ Len(reqs) = expected_requests
        /\ (\E i \in 1..Len(reqs) : reqs[i].kind = "inauthor")
               <=> (two_long_words /\ candidates # {})

\* six candidates were found and five author requests were issued
CapReached ==
    /\ fetch_returned
    /\ Cardinality(candidates) = 6
    /\ Len(reqs) = 8

\* the positions of a list whose identifier is new to the set sn, each
\* identifier at its first position only
first_seen(sn, items) ==
    { i \in 1..Len(items) :
        /\ Get(items[i].id, "") # ""
        /\ Get(items[i].id, "") \notin sn
        /\ \A j \in 1..(i - 1) : items[j].id # items[i].id }

\* C14: every step of the fetch issues one request, the next of the sequence
\* exact-phrase title, unquoted title, raw query, author queries, and only
\* after the answer to the request before it was merged; an author query
\* comes after the three base queries have returned.  The step leaves the
\* items already listed where they are and appends the items of the answer
\* whose identifier was not seen before, in the order of the answer.
C14_SequentialFirstSeenOrder ==
    [][ reqs' # reqs =>
          LET n     == Len(reqs')
              items == items_of(resp')
              new   == first_seen(seen, items)
              added == SubSeq(results', Len(results) + 1, Len(results'))
          IN  /\ n = Len(reqs) + 1
              /\ reqs = SubSeq(reqs', 1, Len(reqs))
              /\ n <= 3 => reqs'[n].kind = variants[n]
              /\ n > 3 => (reqs'[n].kind = "inauthor" /\ qi = 3 /\ pc = "second_pass")
              /\ results = SubSeq(results', 1, Len(results))
              /\ pc' # "raised" =>
                    /\ Len(added) = Cardinality(new)
                    /\ \A i \in new :
                          added[Cardinality({j \in new : j <= i})] = items[i]
              /\ pc' = "raised" => added = <<>>
      ]_vars

\* an author query was answered by a volume listed since the first pass and
\* by a new one: the first stayed at the head, the new one went to the end
C14_SeenAgainKeepsPlace ==
    /\ Len(reqs) = 4
    /\ reqs[4].kind = "inauthor"
    /\ resp.kind = "ok"
    /\ Len(items_of(resp)) = 2
    /\ Len(results) = 2
    /\ first_results = <<results[1]>>
    /\ items_of(resp)[1].id = results[1].id
    /\ items_of(resp)[2] = results[2]

\* C16: for an empty or whitespace-only query search_books issues no
\* upstream request and has an empty result.
C16_EmptyQueryNoRequest ==
    query = <<>> => (reqs = <<>> /\ out = <<>>)

\* the requests of a fetch whose author pass queries the list order
requests_of(order) ==
    [i \in 1..Len(variants) |-> [kind |-> variants[i], author |-> <<>>]]
    \o [i \in 1..Len(order) |-> [kind |-> "inauthor", author |-> <<order[i]>>]]

\* <<seen, results>> after the answers of the anthology catalog to a list of
\* requests were merged one after another
RECURSIVE merged(_)
merged(requests) ==
    IF Len(requests) = 0 THEN <<{}, <<>>>>
    ELSE LET before == merged(SubSeq(requests, 1, Len(requests) - 1))
         IN  merge(before[1], before[2],
                   items_of(WideAnswer(requests[Len(requests)])))

\* what process() returns when list(authors)[:5] is the list order
process_of(order) ==
    LET s == sort_results(filter_results(merged(requests_of(order))[2]))
    IN  [i \in 1..Len(s) |-> convert(s[i])]

\* the candidate authors in alphabetical order, cut like authors[:5]
alphabetical ==
    LET o == sorted_strings(candidates)
    IN  SubSeq(o, 1, IF Len(o) < author_cap THEN Len(o) ELSE author_cap)

\* C17: with an upstream that answers every request the same way each time,
\* process() returns one list for a query and a sort mode, whatever order
\* list(authors) gives the candidate authors: the list of the run that
\* queries them in alphabetical order.
C17_SameResultEveryRun ==
    (pc = "done" /\ query \in WideQueries) =>
        out = process_of(IF is_ambiguous_title THEN alphabetical ELSE <<>>)

\* a run that queried the authors in alphabetical order
AlphabeticalRun ==
    /\ pc = "done"
    /\ is_ambiguous_title
    /\ authors = alphabetical
    /\ out = process_of(alphabetical)

\* the run observed with the authors queried in the order Ed Gil, Di Fox,
\* Bob Ray, Cy Dow, Flo Hu: volumes p, 5, 4, 2, 3, 6, q in relevance mode
ObservedRun ==
    /\ pc = "done"
    /\ sort = "relevance"
    /\ authors = <<t_EdGil, t_DiFox, t_BobRay, t_CyDow, t_FloHu>>
    /\ [i \in 1..Len(out) |-> out[i].id]
         = << <<"p">>, <<"5">>, <<"4">>, <<"2">>, <<"3">>, <<"6">>, <<"q">> >>

\* no request to the collection routes is at work
quiescent == \A h \in 1..MaxRequests : handlers[h].at \in {"idle", "done", "failed"}

\* C18: when the requests to add_to_collection, remove_from_collection,
\* delete_book and delete_collection have been served, in whatever
\* interleaving, no collection holds two rows for one book and no row names
\* a book that was deleted.
C18_NoDuplicateNoDangling ==
    quiescent =>
        /\ \A e1, e2 \in entries :
              (e1.collection_id = e2.collection_id /\ e1.book_id = e2.book_id) => e1 = e2
        /\ \A e \in entries : e.book_id \in books

\* the first half alone: no collection holds two rows for one book
NoDuplicateEntry ==
    quiescent =>
        \A e1, e2 \in entries :
            (e1.collection_id = e2.collection_id /\ e1.book_id = e2.book_id) => e1 = e2

\* the second half alone: no row names a deleted book
NoDanglingEntry ==
    quiescent => \A e \in entries : e.book_id \in books

\* the second half on a database that checks foreign keys
NoDanglingEntryWithForeignKeys ==
    fk_enforced => \A e \in entries : e.book_id \in books

===========================================================================
